---- MODULE Spec2Model ----
(***************************************************************************)
(* Model of cmem_plugin_logpoint.search_logs_task.RetrieveLogs: the        *)
(* constructor, execute (search_start, search_retrieve_logs, the           *)
(* fixed-schema loop, write_execution_report) and preview_repositories.    *)
(*                                                                         *)
(* Strings that the code parses (the comma-separated parameters) are       *)
(* sequences of one-character strings, so that split(",") and strip() are  *)
(* computed, not assumed.  A field name of a row is such a sequence too.   *)
(***************************************************************************)
EXTENDS Integers, Sequences, FiniteSets

\* ------------------------------------------------------------------ bounds
\* Largest number of poll requests one search_retrieve_logs call may issue.
MaxPolls == 2

\* ------------------------------------------------------------ input domains
\* Values of the limit parameter tried at construction.
Limits == {-1, 0, 1, 2}

\* Values of the paths_list parameter tried at construction:
\* "", "a", "a, b", " , ", "a,".
PathParams ==
    { <<>>,
      <<"a">>,
      <<"a", ",", " ", "b">>,
      <<" ", ",", " ">>,
      <<"a", ",">> }

\* Values of the repos parameter tried at construction: "" and "windows, linux".
RepoParams == { <<>>, <<"w", ",", " ", "l">> }

\* The other constructor arguments: base_url "h/", account, secret_key, query
\* and time_range.
BaseUrlParam == <<"h", "/">>
AccountParam == "partner"
SecretKeyParam == "secret"
QueryParam == "norm_id = *"
TimeRangeParam == "Last 1 hour"

\* Search identifiers the service hands out.
SearchIds == {"abc", "xyz"}

\* HTTP status codes the service answers with.
Statuses == {200, 304, 500}

\* Raw rows the service sends: {"a": 1} and {"a": 2, "b": 1}.
RowA == [k \in {<<"a">>} |-> 1]
RowAB == [k \in {<<"a">>, <<"b">>} |-> IF k = <<"a">> THEN 2 ELSE 1]

\* The keys of a row in the order of the JSON object, which is the order a
\* dict iterates in.
KeyOrder(row) == IF row = RowA THEN << <<"a">> >> ELSE << <<"a">>, <<"b">> >>

\* The "rows" of a page: no row, one row, or two different rows.
PageRows == {<<>>, <<RowA>>, <<RowAB>>, <<RowA, RowAB>>}

\* Responses to the start request: a body that is not JSON, a JSON body
\* without "search_id", or a JSON body {"search_id": s}.
StartResponses ==
    {[status |-> s, json |-> FALSE] : s \in Statuses}
    \cup {[status |-> s, json |-> TRUE, has_id |-> FALSE] : s \in Statuses}
    \cup {[status |-> s, json |-> TRUE, has_id |-> TRUE, search_id |-> i] :
            s \in Statuses, i \in SearchIds}

\* Responses to a poll request: a body that is not JSON, or a page
\* {"rows": [...], "final": bool}.
PollResponses ==
    {[status |-> s, json |-> FALSE] : s \in Statuses}
    \cup {[status |-> s, json |-> TRUE, final |-> f, rows |-> r] :
            s \in Statuses, f \in BOOLEAN, r \in PageRows}

\* Repository names, and responses to the repository-listing request.
RepoLists == {<<>>, <<"windows", "linux">>}
RepoResponses ==
    {[status |-> s, json |-> FALSE] : s \in Statuses}
    \cup {[status |-> s, json |-> TRUE, has_repos |-> FALSE] : s \in Statuses}
    \cup {[status |-> s, json |-> TRUE, has_repos |-> TRUE, allowed_repos |-> l] :
            s \in Statuses, l \in RepoLists}

\* ------------------------------------------------------------- error kinds
NoError == "none"
\* ValueError("Limit must be positive.")
ConfigError == "ValueError: Limit must be positive."
\* KeyError("No search_id was found due to the query being incorrect.")
SearchRejected == "KeyError: No search_id was found due to the query being incorrect."
\* requests.HTTPError, raised by Response.raise_for_status()
TransportError == "HTTPError"
\* raised by Response.json() on a body that is not JSON
DecodeError == "JSONDecodeError"
\* a KeyError of a plain dictionary lookup
LookupFailure == "KeyError"
\* an IndexError of a list index
IndexFailure == "IndexError"

\* ------------------------------------------------------------ pure helpers
\* str.strip(): drop leading and trailing blanks.
RECURSIVE StripLeft(_)
StripLeft(s) ==
    IF s # <<>> /\ Head(s) = " " THEN StripLeft(Tail(s)) ELSE s

RECURSIVE StripRight(_)
StripRight(s) ==
    IF s # <<>> /\ s[Len(s)] = " " THEN StripRight(SubSeq(s, 1, Len(s) - 1)) ELSE s

Strip(s) == StripRight(StripLeft(s))

\* str.split(","): the pieces between commas; always at least one piece.
RECURSIVE SplitFrom(_, _)
SplitFrom(s, piece) ==
    IF s = <<>> THEN <<piece>>
    ELSE IF Head(s) = "," THEN <<piece>> \o SplitFrom(Tail(s), <<>>)
    ELSE SplitFrom(Tail(s), Append(piece, Head(s)))

Split(s) == SplitFrom(s, <<>>)

\* [x.strip() for x in param.split(",")]
SplitStrip(param) == [k \in 1..Len(Split(param)) |-> Strip(Split(param)[k])]

\* str.removesuffix("/")
RemoveSlash(s) ==
    IF s # <<>> /\ s[Len(s)] = "/" THEN SubSeq(s, 1, Len(s) - 1) ELSE s

\* str(value) of a row value.
Str(v) == CASE v = 1 -> <<"1">> [] v = 2 -> <<"2">> [] OTHER -> <<"?">>

\* Response.raise_for_status(): raises for 4xx and 5xx.
RaisesForStatus(status) == 400 <= status /\ status < 600

\* -------------------------------------------------------------------- state
VARIABLES
    pc,               \* where the plugin's flow stands
    params,           \* the arguments the constructor was called with
    op,               \* the entry point that is running or has just ended
    err,              \* the exception that left the entry point, or NoError
    base_url,         \* self.base_url
    account,          \* self.account
    secret_key,       \* self.secret_key
    query,            \* self.query
    time_range,       \* self.time_range
    limit,            \* self.limit
    repos,            \* self.repos
    paths_list,       \* self.paths_list
    output_port,      \* self.output_port
    context,          \* whether execute was given an execution context
    http,             \* the requests the running entry point sent, each with its response
    search_id,        \* the handle search_start returned
    results,          \* the rows search_retrieve_logs returned
    entities,         \* execute's list of Entity(uri, values): values is a reference
    values_heap,      \* the values list object of each row, by row number
    entity_uri,       \* the uri of the row being processed
    next_uuid,        \* source of fresh uuid4 values
    warning_occurred, \* execute's warning flag
    row_i,            \* position of the outer loop (for result in results)
    path_j,           \* position of the inner loop (for path in schema.paths)
    reports,          \* what context.report.update was called with, in order
    returned,         \* what the entry point returned: "none", "inferred", "fixed", "preview"
    preview,          \* the string a preview action returned, as a list of pieces
    previous          \* what an earlier run of the fixed-schema loop over the same rows gave

vars ==
    << pc, params, op, err, base_url, account, secret_key, query, time_range, limit, repos,
       paths_list, output_port, context, http, search_id, results, entities,
       values_heap, entity_uri, next_uuid, warning_occurred, row_i, path_j, reports,
       returned, preview, previous >>

config ==
    << base_url, account, secret_key, query, time_range, limit, repos, paths_list,
       output_port >>
constructed == << params, config >>
retrieval == << search_id, results >>
loop == << entities, values_heap, entity_uri, next_uuid, warning_occurred, row_i, path_j >>

\* ------------------------------------------------------------- model of code
\* Faulty variant of the limit check: only negative limits are rejected.
LimitRejectedNegative(l) == l < 0

\* __init__: the limit check.
LimitRejected(l) == l < 1

\* execute: the test that selects schema inference.
InferredMode(paths) == Len(paths) = 1 /\ paths[1] = <<>>

\* generate_schema: one EntityPath per entry of self.paths_list, in order.
GenerateSchema(paths) == paths

\* __init__: FixedSchemaPort(schema=self.generate_schema()) if self.paths_list
\* else UnknownSchemaPort(); a list is true when it is not empty.
OutputPort(paths) ==
    IF paths # <<>>
    THEN [kind |-> "FixedSchemaPort", paths |-> GenerateSchema(paths)]
    ELSE [kind |-> "UnknownSchemaPort"]

\* search_start: the start request, to base_url + "/getsearchlogs".
StartRequest(r, l, t, q) ==
    [kind |-> "start", url |-> Append(base_url, "/getsearchlogs"),
     username |-> account, secret_key |-> secret_key,
     repos |-> r, limit |-> l, time_range |-> t, query |-> q]

\* Faulty variant of the poll request: a fixed handle instead of the one
\* search_start returned.
PollRequestFixedId(sid) ==
    [kind |-> "poll", url |-> Append(base_url, "/getsearchlogs"),
     username |-> account, secret_key |-> secret_key,
     search_id |-> "abc", waiter_id |-> "cmem-plugin-logpoint", seen_version |-> "None"]

\* search_retrieve_logs: every poll request, to base_url + "/getsearchlogs".
PollRequest(sid) ==
    [kind |-> "poll", url |-> Append(base_url, "/getsearchlogs"),
     username |-> account, secret_key |-> secret_key,
     search_id |-> sid, waiter_id |-> "cmem-plugin-logpoint", seen_version |-> "None"]

\* preview_repositories: the repository-listing request, to
\* base_url + "/getalloweddata".
ReposRequest ==
    [kind |-> "repos", url |-> Append(base_url, "/getalloweddata"),
     username |-> account, secret_key |-> secret_key, type |-> "logpoint_repos"]

\* Faulty variant of the preview's limit: the configured limit is passed.
PreviewLimitConfigured == limit

\* preview_output_paths: the limit it passes to search_start.
PreviewLimit == 1

\* Faulty variant of the preview: it sets self.limit = 1 before the search.
LimitAfterPreviewOverwritten(l) == PreviewLimit

\* preview_output_paths: what self.limit is after the call; the 1 is passed
\* as an argument and no attribute is assigned.
LimitAfterPreview(l) == l

\* Faulty variant of search_start: the missing key surfaces as the plain
\* KeyError of the lookup, without the message.
StartOutcomeGeneric(resp) ==
    IF ~resp.json THEN DecodeError
    ELSE IF ~resp.has_id THEN LookupFailure
    ELSE NoError

\* search_start: what the response does to the call.
StartOutcome(resp) ==
    IF ~resp.json THEN DecodeError
    ELSE IF ~resp.has_id THEN SearchRejected
    ELSE NoError

\* Faulty variant of search_retrieve_logs: raise_for_status() is not called.
PollOutcomeNoRaise(resp) ==
    IF ~resp.json THEN DecodeError ELSE NoError

\* search_retrieve_logs: raise_for_status(), then json().
PollOutcome(resp) ==
    IF RaisesForStatus(resp.status) THEN TransportError
    ELSE IF ~resp.json THEN DecodeError
    ELSE NoError

\* Faulty variant of the loop condition: a fixed number of polls, two, whatever
\* the final flag says.
KeepPollingTwice(resp) == Len(http) < 2

\* Faulty variant of the loop condition: poll again while the page is empty.
KeepPollingWhileEmpty(resp) == resp.rows = <<>>

\* search_retrieve_logs: the loop condition, response_data["final"] is False.
KeepPolling(resp) == resp.final = FALSE

\* search_retrieve_logs: the rows returned once the loop has ended.
ReturnedRows(pages, resp) == resp.rows

\* preview_repositories: what the response does to the call.
ReposOutcome(resp) ==
    IF ~resp.json THEN DecodeError
    ELSE IF ~resp.has_repos THEN LookupFailure
    ELSE NoError

\* preview_repositories: "- <repo>\n" for every repository, in order.
RECURSIVE PreviewString(_)
PreviewString(names) ==
    IF names = <<>> THEN <<>>
    ELSE <<"- ", Head(names), "\n">> \o PreviewString(Tail(names))

\* preview_output_paths: result = results[0] raises IndexError on an empty list.
FirstRowOutcome(rows) == IF rows = <<>> THEN IndexFailure ELSE NoError

\* preview_output_paths: "- <key>\n" for every key of the row, in the row's order.
RECURSIVE PathsPreview(_)
PathsPreview(keys) ==
    IF keys = <<>> THEN <<>>
    ELSE <<"- ", Head(keys), "\n">> \o PathsPreview(Tail(keys))

\* Faulty variant of the lookup: str(result.get(path)), "None" for a missing field.
FieldValueGet(row, path) ==
    IF path \in DOMAIN row THEN <<Str(row[path])>> ELSE << <<"N", "o", "n", "e">> >>

\* execute: the value list appended for one path of one row,
\* [str(result[path.path])], or [""] when the lookup raises KeyError.
FieldValue(row, path) ==
    IF path \in DOMAIN row THEN <<Str(row[path])>> ELSE << <<>> >>

\* Faulty variant of the except branch: the warning flag is never set.
FieldMissingNever(row, path) == FALSE

\* execute: whether the lookup of the path raises KeyError.
FieldMissing(row, path) == path \notin DOMAIN row

\* Faulty variant of write_execution_report: the warning is left out.
ExecutionReportSilent(warning, ents) ==
    [entity_count |-> Len(ents), warnings |-> <<>>, summary |-> <<>>]

\* write_execution_report: the report passed to context.report.update.
ExecutionReport(warning, ents) ==
    IF warning
    THEN [entity_count |-> Len(ents), warnings |-> <<"KeyError">>,
          summary |-> << <<"KeyError",
                           "At least some of the paths specified are empty in the result.">> >>]
    ELSE [entity_count |-> Len(ents), warnings |-> <<>>, summary |-> <<>>]

\* execute: the report of the branch that infers the schema.
InferredReport(rows) == [entity_count |-> Len(rows), warnings |-> <<>>, summary |-> <<>>]

\* The preview actions.
PreviewOps == {"preview_output_paths", "preview_repositories"}

\* The poll requests sent so far with their responses.
PollLog == SelectSeq(http, LAMBDA x : x.req.kind = "poll")
PollCount == Len(PollLog)

\* ---------------------------------------------------------------------- Init
Init ==
    /\ pc = "new"
    /\ params = [limit |-> 0, paths_list |-> <<>>, repos |-> <<>>]
    /\ op = "none"
    /\ err = NoError
    /\ base_url = <<>>
    /\ account = ""
    /\ secret_key = ""
    /\ query = ""
    /\ time_range = ""
    /\ limit = 0
    /\ repos = <<>>
    /\ paths_list = <<>>
    /\ output_port = [kind |-> "none"]
    /\ context = FALSE
    /\ http = <<>>
    /\ search_id = ""
    /\ results = <<>>
    /\ entities = <<>>
    /\ values_heap = <<>>
    /\ entity_uri = 0
    /\ next_uuid = 1
    /\ warning_occurred = FALSE
    /\ row_i = 0
    /\ path_j = 0
    /\ reports = <<>>
    /\ returned = "none"
    /\ preview = <<>>
    /\ previous = [runs |-> 0, values |-> <<>>, warning |-> FALSE]

\* ------------------------------------------------------------------- actions
\* RetrieveLogs.__init__(limit = l, paths_list = p, repos = r)
Construct(l, p, r) ==
    /\ pc = "new"
    /\ params' = [limit |-> l, paths_list |-> p, repos |-> r]
    /\ base_url' = RemoveSlash(BaseUrlParam)
    /\ account' = AccountParam
    /\ secret_key' = SecretKeyParam
    /\ query' = QueryParam
    /\ time_range' = TimeRangeParam
    /\ IF LimitRejected(l)
       THEN /\ pc' = "failed"
            /\ op' = "init"
            /\ err' = ConfigError
            /\ UNCHANGED << limit, repos, paths_list, output_port >>
       ELSE /\ pc' = "ready"
            /\ op' = "none"
            /\ err' = NoError
            /\ limit' = l
            /\ repos' = SplitStrip(r)
            /\ paths_list' = SplitStrip(p)
            /\ output_port' = OutputPort(SplitStrip(p))
    /\ UNCHANGED << previous, context, http, retrieval, loop, reports, returned, preview >>

\* execute(context): the call of search_start, answered by resp.
SearchStart(ctx, resp) ==
    /\ pc = "ready"
    /\ op' = "execute"
    /\ context' = ctx
    /\ http' = Append(http, [req |-> StartRequest(repos, limit, time_range, query),
                             resp |-> resp])
    /\ err' = StartOutcome(resp)
    /\ IF StartOutcome(resp) = NoError
       THEN /\ search_id' = resp.search_id
            /\ pc' = "poll"
       ELSE /\ search_id' = search_id
            /\ pc' = "failed"
    /\ UNCHANGED << previous, constructed, results, loop, reports, returned, preview >>

\* preview_output_paths: the call of search_start with limit 1, answered by resp.
PreviewStart(resp) ==
    /\ pc = "ready"
    /\ op' = "preview_output_paths"
    /\ http' = Append(http, [req |-> StartRequest(repos, PreviewLimit, time_range, query),
                             resp |-> resp])
    /\ err' = StartOutcome(resp)
    /\ IF StartOutcome(resp) = NoError
       THEN /\ search_id' = resp.search_id
            /\ pc' = "poll"
       ELSE /\ search_id' = search_id
            /\ pc' = "failed"
    /\ limit' = LimitAfterPreview(limit)
    /\ UNCHANGED << previous, params, base_url, account, secret_key, query, time_range, repos,
                    paths_list, output_port, context, results, loop, reports, returned,
                    preview >>

\* search_retrieve_logs: one requests.post, answered by resp, and what
\* follows it up to the next post or the return.
Poll(resp) ==
    /\ pc = "poll"
    /\ PollCount < MaxPolls
    /\ http' = Append(http, [req |-> PollRequest(search_id), resp |-> resp])
    /\ err' = PollOutcome(resp)
    /\ IF PollOutcome(resp) # NoError
       THEN /\ pc' = "failed"
            /\ results' = results
       ELSE IF KeepPolling(resp)
       THEN /\ pc' = "poll"
            /\ results' = results
       ELSE /\ pc' = "retrieved"
            /\ results' = ReturnedRows(PollLog, resp)
    /\ UNCHANGED << previous, op, constructed, context, search_id, loop, reports, returned, preview >>

\* preview_output_paths: results[0] and the string built from its keys.
PreviewOutputPaths ==
    /\ pc = "retrieved"
    /\ op = "preview_output_paths"
    /\ err' = FirstRowOutcome(results)
    /\ IF FirstRowOutcome(results) = NoError
       THEN /\ preview' = PathsPreview(KeyOrder(results[1]))
            /\ returned' = "preview"
            /\ pc' = "done"
       ELSE /\ preview' = preview
            /\ returned' = returned
            /\ pc' = "failed"
    /\ UNCHANGED << previous, op, constructed, context, http, retrieval, loop, reports >>

\* execute: the branch that delegates to build_entities_from_data.
InferEntities ==
    /\ pc = "retrieved"
    /\ op = "execute"
    /\ InferredMode(paths_list)
    /\ reports' = IF context THEN Append(reports, InferredReport(results)) ELSE reports
    /\ returned' = "inferred"
    /\ pc' = "done"
    /\ UNCHANGED << previous, op, err, constructed, context, http, retrieval, loop, preview >>

\* Faulty variant of the loop entry: the entity list of an earlier run is kept.
BeginFixedKeepEntities ==
    /\ pc = "retrieved"
    /\ op = "execute"
    /\ ~InferredMode(paths_list)
    /\ warning_occurred' = FALSE
    /\ row_i' = 1
    /\ path_j' = 1
    /\ pc' = "materialize"
    /\ UNCHANGED << previous, op, err, constructed, context, http, retrieval, entities,
                    values_heap, entity_uri, next_uuid, reports, returned, preview >>

\* execute: entering the fixed-schema loop.
BeginFixed ==
    /\ pc = "retrieved"
    /\ op = "execute"
    /\ ~InferredMode(paths_list)
    /\ entities' = <<>>
    /\ values_heap' = <<>>
    /\ warning_occurred' = FALSE
    /\ row_i' = 1
    /\ path_j' = 1
    /\ pc' = "materialize"
    /\ UNCHANGED << previous, op, err, constructed, context, http, retrieval, entity_uri, next_uuid,
                    reports, returned, preview >>

\* execute: one pass of the inner loop, for row row_i and path path_j.
MaterializeStep ==
    /\ pc = "materialize"
    /\ row_i <= Len(results)
    /\ LET paths == GenerateSchema(paths_list)
           row == results[row_i]
           path == paths[path_j]
           first == path_j = 1
           uri == IF first THEN next_uuid ELSE entity_uri
           old == IF first THEN <<>> ELSE values_heap[row_i]
           new == old \o <<FieldValue(row, path)>>
       IN /\ entity_uri' = uri
          /\ next_uuid' = IF first THEN next_uuid + 1 ELSE next_uuid
          /\ values_heap' = IF first
                            THEN Append(values_heap, new)
                            ELSE [values_heap EXCEPT ![row_i] = new]
          /\ entities' = Append(entities, [uri |-> uri, values |-> row_i])
          /\ warning_occurred' = (warning_occurred \/ FieldMissing(row, path))
          /\ IF path_j < Len(paths)
             THEN /\ path_j' = path_j + 1
                  /\ row_i' = row_i
             ELSE /\ path_j' = 1
                  /\ row_i' = row_i + 1
    /\ UNCHANGED << previous, pc, op, err, constructed, context, http, retrieval, reports, returned,
                    preview >>

\* execute: write_execution_report and the return of the entities.
FinishFixed ==
    /\ pc = "materialize"
    /\ row_i > Len(results)
    /\ reports' = IF context
                  THEN Append(reports, ExecutionReport(warning_occurred, entities))
                  ELSE reports
    /\ returned' = "fixed"
    /\ pc' = "done"
    /\ UNCHANGED << previous, op, err, constructed, context, http, retrieval, loop, preview >>

\* preview_repositories, answered by resp.
PreviewRepositories(resp) ==
    /\ pc = "ready"
    /\ op' = "preview_repositories"
    /\ http' = Append(http, [req |-> ReposRequest, resp |-> resp])
    /\ err' = ReposOutcome(resp)
    /\ IF ReposOutcome(resp) = NoError
       THEN /\ preview' = PreviewString(resp.allowed_repos)
            /\ returned' = "preview"
            /\ pc' = "done"
       ELSE /\ preview' = preview
            /\ returned' = returned
            /\ pc' = "failed"
    /\ UNCHANGED << previous, constructed, context, retrieval, loop, reports >>

\* A preview action has ended (with its string or with an exception): the
\* caller has the outcome, the locals of the call are gone, and the plugin is
\* ready for its next entry point.
PreviewEnds ==
    /\ pc \in {"done", "failed"}
    /\ op \in PreviewOps
    /\ pc' = "ready"
    /\ op' = "none"
    /\ err' = NoError
    /\ http' = <<>>
    /\ search_id' = ""
    /\ results' = <<>>
    /\ returned' = "none"
    /\ preview' = <<>>
    /\ UNCHANGED << previous, constructed, context, loop, reports >>

Next ==
    \/ \E l \in Limits, p \in PathParams, r \in RepoParams : Construct(l, p, r)
    \/ \E ctx \in BOOLEAN, resp \in StartResponses : SearchStart(ctx, resp)
    \/ \E resp \in StartResponses : PreviewStart(resp)
    \/ PreviewOutputPaths
    \/ \E resp \in PollResponses : Poll(resp)
    \/ InferEntities
    \/ BeginFixed
    \/ MaterializeStep
    \/ FinishFixed
    \/ \E resp \in RepoResponses : PreviewRepositories(resp)
    \/ PreviewEnds

Spec == Init /\ [][Next]_vars

\* The entities execute returned: each Entity with the values list it refers to.
ReturnedEntities ==
    [k \in 1..Len(entities) |->
        [uri |-> entities[k].uri, values |-> values_heap[entities[k].values]]]

\* ------------------------------------------- the fixed-schema loop, run twice
\* The fixed-schema part of execute (lines 254-272) as a function of the rows
\* and the path list: it starts from any rows and any path list that selects
\* the fixed schema, and runs a second time over the same rows.
MaterializeInit ==
    /\ pc = "retrieved"
    /\ op = "execute"
    /\ \E p \in PathParams :
          /\ ~InferredMode(SplitStrip(p))
          /\ params = [limit |-> 1, paths_list |-> p, repos |-> <<>>]
          /\ paths_list = SplitStrip(p)
          /\ output_port = OutputPort(SplitStrip(p))
    /\ err = NoError
    /\ base_url = RemoveSlash(BaseUrlParam)
    /\ account = AccountParam
    /\ secret_key = SecretKeyParam
    /\ query = QueryParam
    /\ time_range = TimeRangeParam
    /\ limit = 1
    /\ repos = SplitStrip(<<>>)
    /\ context \in BOOLEAN
    /\ http = <<>>
    /\ search_id = "abc"
    /\ results \in PageRows
    /\ entities = <<>>
    /\ values_heap = <<>>
    /\ entity_uri = 0
    /\ next_uuid = 1
    /\ warning_occurred = FALSE
    /\ row_i = 0
    /\ path_j = 0
    /\ reports = <<>>
    /\ returned = "none"
    /\ preview = <<>>
    /\ previous = [runs |-> 0, values |-> <<>>, warning |-> FALSE]

\* The first run has returned; its values and its flag are kept, and the
\* fixed-schema part runs again over the same rows and paths.
MaterializeAgain ==
    /\ pc = "done"
    /\ returned = "fixed"
    /\ previous.runs = 0
    /\ previous' = [runs |-> 1,
                    values |-> [k \in 1..Len(entities) |-> ReturnedEntities[k].values],
                    warning |-> warning_occurred]
    /\ pc' = "retrieved"
    /\ returned' = "none"
    /\ UNCHANGED << op, err, constructed, context, http, retrieval, loop, reports, preview >>

MaterializeNext ==
    \/ BeginFixed
    \/ MaterializeStep
    \/ FinishFixed
    \/ MaterializeAgain

MaterializeSpec == MaterializeInit /\ [][MaterializeNext]_vars

\* ------------------------------------------------- the poll loop with a service
\* that ends the search
\* A plugin as the constructor leaves it for limit 1 and blank parameters.
PollInit ==
    /\ pc = "ready"
    /\ params = [limit |-> 1, paths_list |-> <<>>, repos |-> <<>>]
    /\ op = "none"
    /\ err = NoError
    /\ base_url = RemoveSlash(BaseUrlParam)
    /\ account = AccountParam
    /\ secret_key = SecretKeyParam
    /\ query = QueryParam
    /\ time_range = TimeRangeParam
    /\ limit = 1
    /\ repos = SplitStrip(<<>>)
    /\ paths_list = SplitStrip(<<>>)
    /\ output_port = OutputPort(SplitStrip(<<>>))
    /\ context = FALSE
    /\ http = <<>>
    /\ search_id = ""
    /\ results = <<>>
    /\ entities = <<>>
    /\ values_heap = <<>>
    /\ entity_uri = 0
    /\ next_uuid = 1
    /\ warning_occurred = FALSE
    /\ row_i = 0
    /\ path_j = 0
    /\ reports = <<>>
    /\ returned = "none"
    /\ preview = <<>>
    /\ previous = [runs |-> 0, values |-> <<>>, warning |-> FALSE]

\* A poll answered by a service that sends fewer than MaxPolls pages that are
\* not final: a page that is not final is sent only when one more poll is allowed.
PollAnswered ==
    \E resp \in PollResponses :
        /\ Poll(resp)
        /\ pc' = "poll" => PollCount' < MaxPolls

PollNext ==
    \/ \E ctx \in BOOLEAN, resp \in StartResponses : SearchStart(ctx, resp)
    \/ PollAnswered

\* requests.post returns or raises (timeout=100), so a pending poll is answered.
PollSpec == PollInit /\ [][PollNext]_vars /\ WF_vars(PollAnswered)

\* ------------------------------------------------------ vocabulary of claims
\* search_retrieve_logs has returned normally to the entry point that called it.
Retrieved ==
    /\ op \in {"execute", "preview_output_paths"}
    /\ pc \in {"retrieved", "materialize", "done"} \/ err = IndexFailure

\* rows(p1) ++ rows(p2) ++ ... of a list of poll exchanges.
RECURSIVE AllRows(_)
AllRows(log) ==
    IF log = <<>> THEN <<>> ELSE Head(log).resp.rows \o AllRows(Tail(log))

\* A 2xx status.
Success(status) == 200 <= status /\ status < 300

\* Every entry of a path list is the empty string.
AllBlank(paths) == \A k \in 1..Len(paths) : paths[k] = <<>>

\* The pair (row i, path j) has been through the inner loop.
Processed(i, j) == i < row_i \/ (i = row_i /\ j < path_j)

\* Some processed pair had its field missing from the row.
SomeProcessedMiss ==
    \E i \in 1..Len(results) : \E j \in 1..Len(paths_list) :
        Processed(i, j) /\ paths_list[j] \notin DOMAIN results[i]

\* ------------------------------------------------------------------------ C1
\* C1: once search_retrieve_logs has returned after pages p1..pn (all answered
\* with status 200, p1..p(n-1) not final, pn final), the rows it returned are
\* rows(p1) ++ ... ++ rows(pn), in page order.
C1_ReturnsAllPages ==
    (Retrieved /\ \A k \in 1..PollCount : PollLog[k].resp.status = 200)
        => results = AllRows(PollLog)

\* ------------------------------------------------------------------------ C2
\* C2: whenever search_retrieve_logs has returned normally, the last poll
\* response had final = true and every earlier one had final = false; before
\* that, no rows have been handed to execute.
C2_ReturnsOnlyOnFinal ==
    /\ Retrieved =>
          /\ PollCount >= 1
          /\ PollLog[PollCount].resp.json /\ PollLog[PollCount].resp.final
          /\ \A k \in 1..(PollCount - 1) :
                PollLog[k].resp.json /\ ~PollLog[k].resp.final
    /\ ~Retrieved => results = <<>> /\ returned \in {"none", "preview"}

C2_Witness ==
    /\ Retrieved
    /\ PollCount = 2
    /\ PollLog[1].resp.rows # <<>>

\* ------------------------------------------------------------------------ C3
\* C3: a fixed-schema execute (every path non-blank) returns exactly one
\* record per input row, and the i-th record is built from the i-th row.
C3_OneRecordPerRow ==
    (returned = "fixed" /\ \A j \in 1..Len(paths_list) : paths_list[j] # <<>>) =>
        /\ Len(entities) = Len(results)
        /\ \A k \in 1..Len(entities) : entities[k].values = k

\* ------------------------------------------------------------------------ C4
\* C4: every record a fixed-schema execute returns has exactly len(paths)
\* values, the j-th being [str(row[paths[j]])] when the row it was built from
\* has that field and [""] when it has not.
C4_ValuesAlignedWithPaths ==
    returned = "fixed" =>
        \A k \in 1..Len(entities) :
            LET row == results[entities[k].values]
                vals == ReturnedEntities[k].values
            IN /\ Len(vals) = Len(paths_list)
               /\ \A j \in 1..Len(paths_list) :
                     IF paths_list[j] \in DOMAIN row
                     THEN vals[j] = << IF row[paths_list[j]] = 1 THEN <<"1">> ELSE <<"2">> >>
                     ELSE vals[j] = << <<>> >>

\* Scenario C: paths [a, b] over row {a: 1} gives values [["1"], [""]].
C4_Witness ==
    /\ returned = "fixed"
    /\ paths_list = << <<"a">>, <<"b">> >>
    /\ results = <<RowA>>
    /\ ReturnedEntities[1].values = << << <<"1">> >>, << <<>> >> >>

\* ------------------------------------------------------------------------ C5
\* C5: in the fixed-schema loop a missing field never aborts: no exception is
\* pending, the warning flag is true exactly when some pair processed so far
\* had its field missing (so once true it stays true), and when execute has
\* returned every row has its record with a value for every path.
C5_SoftMiss ==
    /\ (pc = "materialize" \/ returned = "fixed") =>
          /\ err = NoError
          /\ warning_occurred <=> SomeProcessedMiss
    /\ returned = "fixed" =>
          \A i \in 1..Len(results) :
              /\ \E k \in 1..Len(entities) : entities[k].values = i
              /\ Len(values_heap[i]) = Len(paths_list)

\* The first row misses a field, and the second row still got its record.
C5_Witness ==
    /\ returned = "fixed"
    /\ warning_occurred
    /\ results = <<RowA, RowAB>>
    /\ paths_list = << <<"a">>, <<"b">> >>
    /\ \E k \in 1..Len(entities) : entities[k].values = 2

\* ------------------------------------------------------------------------ C6
\* C6: when every entry of the path list is blank, execute infers the schema
\* and never enters the fixed-schema loop.
C6_BlankListIsInferred ==
    (op = "execute" /\ AllBlank(paths_list)) =>
        /\ pc # "materialize"
        /\ returned # "fixed"

\* ------------------------------------------------------------------------ C7
\* C7: when the start response is JSON without a search identifier, execute
\* ends with SearchRejected after that one request: no poll, no rows, no
\* record, no report. When it carries search_id = s, the handle is s.
C7_SearchRejected ==
    op = "execute" =>
        LET start == http[1].resp
        IN /\ (start.json /\ ~start.has_id) =>
                /\ pc = "failed"
                /\ err = SearchRejected
                /\ Len(http) = 1
                /\ results = <<>>
                /\ entities = <<>>
                /\ reports = <<>>
                /\ returned = "none"
           /\ (start.json /\ start.has_id) =>
                /\ err # SearchRejected
                /\ search_id = start.search_id

C7_Witness ==
    /\ op = "execute"
    /\ context
    /\ err = SearchRejected
    /\ http[1].resp.status = 200

\* ------------------------------------------------------------------------ C8
\* C8: constructing with limit < 1 fails with ConfigError before any request
\* is sent; constructing with limit >= 1 does not fail and keeps the limit.
C8_LimitChecked ==
    pc # "new" =>
        /\ params.limit < 1 =>
              /\ pc = "failed"
              /\ err = ConfigError
              /\ http = <<>>
        /\ params.limit >= 1 =>
              /\ err # ConfigError
              /\ limit = params.limit

C8_Witness ==
    /\ params.limit = 0
    /\ err = ConfigError
    /\ http = <<>>

\* ------------------------------------------------------------------------ C9
\* C9, as stated: a poll response with a status outside 2xx ends
\* search_retrieve_logs with TransportError at once: it is the last request,
\* no rows are returned and execute produces nothing.
C9_NonSuccessPollRaises ==
    \A k \in 1..PollCount :
        ~Success(PollLog[k].resp.status) =>
            /\ k = PollCount
            /\ pc = "failed"
            /\ err = TransportError
            /\ results = <<>>
            /\ entities = <<>>
            /\ returned = "none"

\* C9, amended: a poll response with a 4xx or 5xx status ends
\* search_retrieve_logs with TransportError at once: it is the last request,
\* no rows are returned (none of an earlier page either) and execute produces
\* nothing.
C9_ErrorStatusPollRaises ==
    \A k \in 1..PollCount :
        PollLog[k].resp.status >= 400 =>
            /\ k = PollCount
            /\ pc = "failed"
            /\ err = TransportError
            /\ results = <<>>
            /\ entities = <<>>
            /\ reports = <<>>
            /\ returned = "none"

\* The second poll fails after a first page that carried rows.
C9_Witness ==
    /\ PollCount = 2
    /\ PollLog[1].resp.rows # <<>>
    /\ PollLog[2].resp.status = 500
    /\ PollLog[2].resp.json
    /\ err = TransportError

\* ----------------------------------------------------------------------- C10
\* C10: a response with a status outside 2xx, to any request (start, poll or
\* repository listing), ends the entry point with TransportError.
C10_NonSuccessAlwaysTransportError ==
    \A k \in 1..Len(http) :
        ~Success(http[k].resp.status) =>
            /\ pc = "failed"
            /\ err = TransportError

\* ----------------------------------------------------------------------- C11
\* C11: no two records a fixed-schema execute returns share an identifier.
C11_UniqueIdentifiers ==
    returned = "fixed" =>
        \A k, l \in 1..Len(entities) :
            k # l => ReturnedEntities[k].uri # ReturnedEntities[l].uri

\* ----------------------------------------------------------------------- C12
\* C12: a preview over an empty result set ends normally with an empty
\* preview: preview_output_paths when the search returned zero rows, and
\* preview_repositories when allowed_repos is empty.
C12_EmptyPreviewTolerated ==
    /\ (op = "preview_output_paths" /\ Retrieved /\ results = <<>> /\ pc # "retrieved") =>
          /\ pc = "done"
          /\ err = NoError
          /\ preview = <<>>
    /\ (/\ op = "preview_repositories"
        /\ http[1].resp.json
        /\ http[1].resp.has_repos
        /\ http[1].resp.allowed_repos = <<>>) =>
          /\ pc = "done"
          /\ err = NoError
          /\ preview = <<>>

\* ----------------------------------------------------------------------- C13
\* C13: while and after a preview action runs, every configuration attribute
\* still has the value the constructor gave it; the preview's start request
\* carries limit 1 and the start request of an execute the configured limit.
C13_PreviewLeavesConfig ==
    /\ op \in PreviewOps =>
          /\ base_url = RemoveSlash(BaseUrlParam)
          /\ account = AccountParam
          /\ secret_key = SecretKeyParam
          /\ query = QueryParam
          /\ time_range = TimeRangeParam
          /\ limit = params.limit
          /\ repos = SplitStrip(params.repos)
          /\ paths_list = SplitStrip(params.paths_list)
    /\ op = "preview_output_paths" => http[1].req.limit = 1
    /\ op = "execute" => http[1].req.limit = params.limit

\* A preview with limit 1 has ended on a plugin configured with limit 2.
C13_Witness ==
    /\ op = "preview_output_paths"
    /\ pc = "done"
    /\ params.limit = 2
    /\ limit = 2
    /\ http[1].req.limit = 1

\* ----------------------------------------------------------------------- C14
\* The exception the claim names; the code has no counterpart.
PollTimeout == "PollTimeout"

\* C14: the poll loop stops after a maximum number of attempts (here MaxPolls)
\* that were all answered with final = false: it ends with PollTimeout and
\* returns no rows.
C14_PollLoopBounded ==
    (/\ PollCount = MaxPolls
     /\ \A k \in 1..PollCount :
           /\ Success(PollLog[k].resp.status)
           /\ PollLog[k].resp.json
           /\ ~PollLog[k].resp.final) =>
        /\ pc = "failed"
        /\ err = PollTimeout
        /\ results = <<>>

\* ----------------------------------------------------------------------- C15
\* C15: preview_output_paths sends one start request with limit 1 and the
\* configured query, time range and repositories, then only poll requests;
\* when it returns, the last page was final and the preview lists the keys of
\* the first row search_retrieve_logs returned, each once, in the row's order.
C15_PreviewOutputPaths ==
    op = "preview_output_paths" =>
        /\ http[1].req.kind = "start"
        /\ http[1].req.limit = 1
        /\ http[1].req.query = QueryParam
        /\ http[1].req.time_range = TimeRangeParam
        /\ http[1].req.repos = SplitStrip(params.repos)
        /\ \A k \in 2..Len(http) : http[k].req.kind = "poll"
        /\ returned = "preview" =>
              /\ PollCount >= 1
              /\ PollLog[PollCount].resp.final
              /\ results # <<>>
              /\ results[1] = RowA => preview = <<"- ", <<"a">>, "\n">>
              /\ results[1] = RowAB =>
                    preview = <<"- ", <<"a">>, "\n", "- ", <<"b">>, "\n">>

C15_Witness ==
    /\ op = "preview_output_paths"
    /\ returned = "preview"
    /\ params.limit = 2
    /\ PollCount = 2
    /\ results[1] = RowAB
    /\ Len(preview) = 6

\* ----------------------------------------------------------------------- C16
\* Some path is missing from some row of the results.
AnyMiss ==
    \E i \in 1..Len(results) : \E j \in 1..Len(paths_list) :
        paths_list[j] \notin DOMAIN results[i]

\* C16: a fixed-schema execute with a sink sends it exactly one report, when
\* it returns; the report carries the warning "KeyError" with its summary when
\* some path was missing from some row, and no warning otherwise.
C16_OneReportWithWarning ==
    /\ (returned = "fixed" /\ context) =>
          /\ Len(reports) = 1
          /\ AnyMiss =>
                /\ warning_occurred
                /\ reports[1].warnings = <<"KeyError">>
                /\ Len(reports[1].summary) = 1
                /\ reports[1].summary[1][1] = "KeyError"
          /\ ~AnyMiss =>
                /\ ~warning_occurred
                /\ reports[1].warnings = <<>>
                /\ reports[1].summary = <<>>
    /\ (op = "execute" /\ pc \in {"poll", "retrieved", "materialize"}) => reports = <<>>
    /\ ~context => reports = <<>>

C16_Witness ==
    /\ returned = "fixed"
    /\ context
    /\ results = <<RowA, RowAB>>
    /\ reports[1].warnings = <<"KeyError">>

\* ----------------------------------------------------------------------- C17
\* C17: a second run of the fixed-schema loop over the same rows and paths
\* gives as many records as the first, with the same values record by record,
\* and the same warning flag.
C17_SameValuesTwice ==
    (previous.runs = 1 /\ returned = "fixed") =>
        /\ Len(entities) = Len(previous.values)
        /\ \A k \in 1..Len(entities) :
              k <= Len(previous.values) /\ ReturnedEntities[k].values = previous.values[k]
        /\ warning_occurred = previous.warning

\* The second run has returned, with other identifiers than the first.
C17_Witness ==
    /\ previous.runs = 1
    /\ returned = "fixed"
    /\ results = <<RowA, RowAB>>
    /\ paths_list = << <<"a">>, <<"b">> >>
    /\ previous.warning
    /\ entities[1].uri = 3

\* ----------------------------------------------------------------------- C18
\* C18: an execute sends one start request, first; every later request is a
\* poll that carries the handle of the start response and the waiter id, with
\* the same body every time; each request has its response before the next is
\* sent; and the fixed-schema loop runs only after a final page.
C18_SequentialFlow ==
    op = "execute" =>
        /\ http[1].req.kind = "start"
        /\ \A k \in 2..Len(http) :
              /\ http[k].req.kind = "poll"
              /\ http[k].req.search_id = http[1].resp.search_id
              /\ http[k].req.waiter_id = "cmem-plugin-logpoint"
              /\ http[k].req = http[2].req
        /\ pc \in {"poll", "failed"} => entities = <<>> /\ row_i = 0
        /\ (pc = "materialize" \/ returned = "fixed") =>
              /\ PollCount >= 1
              /\ PollLog[PollCount].resp.final
              /\ results = PollLog[PollCount].resp.rows

C18_Witness ==
    /\ op = "execute"
    /\ pc = "materialize"
    /\ Len(http) = 3
    /\ http[1].resp.search_id = "xyz"
    /\ http[3].req.search_id = "xyz"

\* ----------------------------------------------------------------------- C19
\* C19: when every poll was answered with a 2xx page, the loop has returned
\* exactly when the last page is final (all earlier ones were not), and polls
\* again otherwise, whatever the number of polls; and with a service that
\* ends the search, a running poll loop always ends.
C19_FinalFlagDecides ==
    /\ [](\A n \in 1..MaxPolls :
            (/\ PollCount = n
             /\ \A k \in 1..n : Success(PollLog[k].resp.status) /\ PollLog[k].resp.json) =>
                /\ PollLog[n].resp.final =>
                      /\ pc = "retrieved"
                      /\ \A k \in 1..(n - 1) : ~PollLog[k].resp.final
                /\ ~PollLog[n].resp.final => pc = "poll")
    /\ (pc = "poll") ~> (pc # "poll")

\* The loop returned after two polls, both answered with status 200.
C19_Witness ==
    /\ pc = "retrieved"
    /\ PollCount = 2
    /\ PollLog[1].resp.status = 200
    /\ PollLog[2].resp.status = 200
    /\ ~PollLog[1].resp.final

\* ----------------------------------------------------------------------- C20
\* C20: the output port is an unknown-schema port exactly when the paths_list
\* parameter is blank, where execute infers the schema; where execute runs the
\* fixed-schema loop it is a fixed-schema port with the configured paths.
C20_PortMatchesMode ==
    (pc # "new" /\ ~(pc = "failed" /\ op = "init")) =>
        /\ output_port.kind = "UnknownSchemaPort" <=> Strip(params.paths_list) = <<>>
        /\ returned = "inferred" => output_port.kind = "UnknownSchemaPort"
        /\ (pc = "materialize" \/ returned = "fixed") =>
              /\ output_port.kind = "FixedSchemaPort"
              /\ output_port.paths = paths_list

\* ----------------------------------------------------------------------- C21
\* C21: the start-search request of an execute or of a path preview carries
\* no repository when the repos parameter is empty or blank, never a
\* repository with the empty name, and for a comma-separated list the trimmed
\* names in the given order.
C21_ReposInRequest ==
    op \in {"execute", "preview_output_paths"} =>
        /\ http[1].req.kind = "start"
        /\ Strip(params.repos) = <<>> => http[1].req.repos = <<>>
        /\ \A k \in 1..Len(http[1].req.repos) : http[1].req.repos[k] # <<>>
        /\ params.repos = <<"w", ",", " ", "l">> =>
              http[1].req.repos = << <<"w">>, <<"l">> >>

====
